---- MODULE Spec2Model ----
(***************************************************************************)
(* hyperdrive-fuse: the FUSE operation handlers and the mount lifecycle.   *)
(*                                                                         *)
(* Two variants of the layer live in the repository and both are modelled: *)
(*   "class" - class HyperdriveFuse            (src/unnamed/part_000)      *)
(*   "func"  - getHandlers / mount / unmount   (src/index.js)              *)
(* The backend drive and the kernel transport (fuse-native) are external:  *)
(* every outcome they may report is a nondeterministic input.              *)
(***************************************************************************)
EXTENDS Integers, Sequences, FiniteSets, TLC

VARIABLES
    impl,       \* which variant of the layer is running: "class" or "func"
    \* ---- mount lifecycle -------------------------------------------------
    fuse,       \* this.fuse of the HyperdriveFuse instance: 0 (null) or a transport id
    mpc,        \* mount call -> position of the call
    mres,       \* mount call -> settlement of the promise it returned
    created,    \* transport objects constructed by `new Fuse(...)`
    invoked,    \* sequence of transport ids on which the transport's mount was invoked
    live,       \* transport ids whose kernel registration is live
    upc,        \* unmount call -> position of the call
    ures,       \* unmount call -> settlement of the promise it returned
    utarget,    \* unmount call -> transport handle the call unmounts (0: by mount path)
    unmounted,  \* sequence of transport handles on which the transport's unmount was invoked
    mrep,       \* mount call -> the last outcome a backend/transport callback reported to it
    urep,       \* unmount call -> the outcome the transport's unmount reported to it
    nready,     \* mount call -> number of times the call invoked drive.ready
    \* ---- operation handlers --------------------------------------------
    platform,   \* os.platform(): "linux" or "darwin"
    req,        \* the kernel request being served (req.op = "none": no request)
    hpc,        \* position of the request: "idle", "wait", "done", "threw"
    stage,      \* number of backend replies the request has received
    bcalls,     \* sequence of backend calls the handler has made for the request
    replies,    \* sequence of replies the backend has given to those calls
    cbs,        \* sequence of invocations of the request's completion callback
    heap,       \* buffer id -> bytes of the Buffer object
    given,      \* slot -> bytes the request's buffer held when the handler was invoked
    consumed,   \* slot -> bytes the backend read from the buffer handed to drive.write
    \* ---- backend store and caller of the round trip -----------------------
    file,       \* bytes of the backend's file
    fpos,       \* position after the last write of the open descriptor
    script,     \* the caller: phase, index of the next slice/chunk, N, S, R, descriptor
    chunks,     \* what each read gave the caller: reported status and bytes
    drive,      \* the backend drive: attribute maps, attributes, open descriptors
    hist        \* what the kernel's completed requests asked for (history)

lifecycleVars ==
    <<fuse, mpc, mres, created, invoked, live, upc, ures, utarget, unmounted, mrep, urep,
      nready>>

handlerVars == <<platform, req, hpc, stage, bcalls, replies, cbs, heap, given, consumed>>

storeVars == <<file, fpos, script, chunks, drive, hist>>

vars == <<impl, lifecycleVars, handlerVars, storeVars>>

Impl == {"class", "func"}

\* ---------------------------------------------------------------- bounds
MaxMounts == 2      \* mount() calls issued on the session
MaxUnmounts == 2    \* unmount() calls issued on the session
MaxSlots == 2       \* kernel requests in flight at once
BufLen == 2         \* bytes in a buffer of the kernel transport
MaxSlices == 3      \* N: slices written in the round trip
MaxSliceSize == 3   \* S: bytes in a slice
MaxReadSize == 3    \* R: bytes asked for by a read
MaxFds == 2         \* descriptors the drive issues
Bytes == {0, 1}

MountCalls == 1..MaxMounts
UnmountCalls == 1..MaxUnmounts

\* Errors the backend or the transport may report to a lifecycle callback.
Errs == {"Ea", "Eb"}
\* new Error('Cannot remount the same HyperdriveFuse instance.')
RemountError == "Cannot remount the same HyperdriveFuse instance."
\* fs.stat reporting errno -2: the mount point does not exist yet
StatENOENT == "ENOENT"

\* The session after `new HyperdriveFuse(drive, mnt)`: no handle, no call made.
LifecycleInit ==
    /\ fuse = 0
    /\ mpc = [c \in MountCalls |-> "idle"]
    /\ mres = [c \in MountCalls |-> "pending"]
    /\ created = {}
    /\ invoked = <<>>
    /\ live = {}
    /\ upc = [u \in UnmountCalls |-> "idle"]
    /\ ures = [u \in UnmountCalls |-> "pending"]
    /\ utarget = [u \in UnmountCalls |-> 0]
    /\ unmounted = <<>>
    /\ mrep = [c \in MountCalls |-> "none"]
    /\ urep = [u \in UnmountCalls |-> "none"]
    /\ nready = [c \in MountCalls |-> 0]

\* ============================================================== handlers
\* ---- values passed between the kernel, the handlers and the backend ----

Platforms == {"linux", "darwin"}

\* Status constants of the transport (fuse-native): negative errno values.
ENOENT == -2
EPERM == -1
EBADF == -9

\* A path string: absolute or relative, a sequence of segments. NoPath stands
\* for a value that is no string (null / undefined).
NoPath == [isStr |-> FALSE, abs |-> FALSE, segs |-> <<>>]
AbsPath(segs) == [isStr |-> TRUE, abs |-> TRUE, segs |-> segs]
RelPath(segs) == [isStr |-> TRUE, abs |-> FALSE, segs |-> segs]
Root == AbsPath(<<>>)

\* process.getuid() / process.getgid()
getuid == "process-uid"
getgid == "process-gid"

\* self.mnt: p.resolve(mnt), an absolute path
mnt == AbsPath(<<"mnt">>)

\* Open flags: a set of semantic flags in the bit layout of one platform; the
\* string 'w' that create hands to drive.open is the layout "string".
NoFlags == [layout |-> "none", sem |-> {}]
KnownFlags == {"O_WRONLY", "O_RDWR", "O_CREAT", "O_TRUNC", "O_APPEND", "O_EXCL"}

\* translate(fsConstants[platform], linux, flags) of filesystem-constants: the
\* flags the source layout names are re-encoded in the linux layout.
translate(from, to, flags) == [layout |-> to, sem |-> flags.sem \cap KnownFlags]

\* A time value: a Date object ("date") or a number of milliseconds ("ms").
NoTime == [t |-> "none", v |-> 0]
DateOf(v) == [t |-> "date", v |-> v]
\* Date.prototype.getTime
getTime(d) == [t |-> "ms", v |-> d.v]

\* The error a backend callback receives: none, or an Error that may carry a
\* numeric errno.
NoErr == [is |-> FALSE, has |-> FALSE, errno |-> 0]
ErrWith(e) == [is |-> TRUE, has |-> TRUE, errno |-> e]
ErrPlain == [is |-> TRUE, has |-> FALSE, errno |-> 0]

\* `-err.errno || dflt`: -undefined is NaN and -0 is 0, both falsy.
NegErrnoOr(err, dflt) == IF err.has /\ err.errno # 0 THEN 0 - err.errno ELSE dflt

\* stat.metadata: absent, or a map from attribute name to value.
NoMeta == [has |-> FALSE, map |-> <<>>]
Meta(m) == [has |-> TRUE, map |-> m]

\* The stat record of the backend (the fields the handlers read or write).
Stat(uid, gid, linkname, metadata) ==
    [uid |-> uid, gid |-> gid, linkname |-> linkname, metadata |-> metadata]
NoStat == Stat("", "", NoPath, NoMeta)

\* The attribute patch handed to drive._update, and the options of create/mkdir.
NoPatch == [keys |-> {}, uid |-> "", gid |-> "", mode |-> 0, atime |-> NoTime, mtime |-> NoTime]
AttrOpts(mode, uid, gid) ==
    [keys |-> {"mode", "uid", "gid"}, uid |-> uid, gid |-> gid, mode |-> mode,
     atime |-> NoTime, mtime |-> NoTime]

\* A kernel request: the operation and its arguments.
NoReq ==
    [op |-> "none", path |-> NoPath, handle |-> 0, buf |-> 0, len |-> 0, offset |-> 0,
     size |-> 0, mode |-> 0, uid |-> "", gid |-> "", atime |-> NoTime, mtime |-> NoTime,
     flags |-> NoFlags, target |-> NoPath, name |-> "", value |-> ""]

\* A call of a backend method: the method and its arguments (hasPos: a file
\* position was passed).
NoCall ==
    [fn |-> "none", path |-> NoPath, handle |-> 0, buf |-> 0, bufOffset |-> 0, len |-> 0,
     hasPos |-> FALSE, pos |-> 0, size |-> 0, flags |-> NoFlags, attrs |-> NoPatch,
     target |-> NoPath, name |-> "", value |-> ""]

\* What the backend passes to the callback of a call.
NoReply == [err |-> NoErr, stat |-> NoStat, files |-> <<>>, fd |-> 0, n |-> 0]
Failure(err) == [NoReply EXCEPT !.err = err]

\* The second argument of a completion callback.
NoRes ==
    [t |-> "none", stat |-> NoStat, files |-> <<>>, fd |-> 0, path |-> NoPath,
     hasValue |-> FALSE, value |-> "", names |-> {}, statfs |-> 0]

\* One invocation of the completion callback: cb(status) or cb(status, res);
\* kind "errobj" is cb(err) with the backend's Error object as the status.
Cb(status) == [kind |-> "status", status |-> status, err |-> NoErr, res |-> NoRes]
CbRes(status, res) == [kind |-> "status", status |-> status, err |-> NoErr, res |-> res]
CbErrObj(err) == [kind |-> "errobj", status |-> 0, err |-> err, res |-> NoRes]

\* The outcome of one synchronous run of handler code: the backend call it
\* issued (if any), the callback invocations it made, and whether it threw.
Calls(call) == [pc |-> "wait", call |-> call, cbs |-> <<>>]
Done(cb) == [pc |-> "done", call |-> NoCall, cbs |-> <<cb>>]
Threw == [pc |-> "threw", call |-> NoCall, cbs |-> <<>>]

\* ---- path (node's path module, POSIX flavour) --------------------------
RECURSIVE NormSegs(_, _, _)
\* Segments `rest` normalised onto `acc`: "." dropped, ".." pops (at the root
\* of an absolute path it is dropped, in a relative path a leading one stays).
NormSegs(abs, acc, rest) ==
    IF rest = <<>> THEN acc
    ELSE LET x == Head(rest) IN
         IF x = "." THEN NormSegs(abs, acc, Tail(rest))
         ELSE IF x = ".." THEN
              IF acc # <<>> /\ acc[Len(acc)] # ".."
              THEN NormSegs(abs, SubSeq(acc, 1, Len(acc) - 1), Tail(rest))
              ELSE IF abs THEN NormSegs(abs, acc, Tail(rest))
              ELSE NormSegs(abs, Append(acc, x), Tail(rest))
         ELSE NormSegs(abs, Append(acc, x), Tail(rest))

\* p.isAbsolute(x): throws a TypeError when x is no string (isStr = FALSE).
isAbsolute(x) == x.abs

\* p.join(a, b) for an absolute a: b is appended whatever it starts with.
join(a, b) == [isStr |-> TRUE, abs |-> a.abs, segs |-> NormSegs(a.abs, <<>>, a.segs \o b.segs)]

\* p.dirname(x) of an absolute path.
dirname(x) ==
    [x EXCEPT !.segs = IF x.segs = <<>> THEN <<>> ELSE SubSeq(x.segs, 1, Len(x.segs) - 1)]

\* p.resolve('/', dir, x): the rightmost absolute argument starts the result.
resolve(dir, x) ==
    IF x.abs THEN AbsPath(NormSegs(TRUE, <<>>, x.segs))
    ELSE AbsPath(NormSegs(TRUE, <<>>, dir.segs \o x.segs))

\* Buffer.from(buf): a new Buffer holding a copy of the bytes of buf. The new
\* buffer gets the next free id of the heap.
BufferFrom(h, buf) == [id |-> Len(h) + 1, heap |-> Append(h, h[buf])]

\* ---- the handlers ------------------------------------------------------
\* h_<op>(i, plat, rq, h): the synchronous part of handler <op> of variant i
\* for request rq; cb_<op>(i, rq, r): the callback it hands to the backend,
\* run with the backend's reply r.

h_getattr(i, plat, rq, h) == Calls([NoCall EXCEPT !.fn = "lstat", !.path = rq.path])
\* The variant "func" overrides the ownership of the mount root only.
getattr_stat(i, path, stat) ==
    IF i = "class" \/ path = Root
    THEN [stat EXCEPT !.uid = getuid, !.gid = getgid]
    ELSE stat
cb_getattr(i, rq, r) ==
    IF r.err.is THEN Done(Cb(NegErrnoOr(r.err, ENOENT)))
    ELSE Done(CbRes(0, [NoRes EXCEPT !.t = "stat", !.stat = getattr_stat(i, rq.path, r.stat)]))

h_readdir(i, plat, rq, h) == Calls([NoCall EXCEPT !.fn = "readdir", !.path = rq.path])
cb_readdir(i, rq, r) ==
    IF r.err.is THEN Done(Cb(NegErrnoOr(r.err, ENOENT)))
    ELSE Done(CbRes(0, [NoRes EXCEPT !.t = "files", !.files = r.files]))

h_open(i, plat, rq, h) ==
    Calls([NoCall EXCEPT !.fn = "open", !.path = rq.path,
              !.flags = IF plat # "linux" THEN translate(plat, "linux", rq.flags)
                        ELSE rq.flags])
cb_open(i, rq, r) ==
    IF r.err.is THEN Done(Cb(NegErrnoOr(r.err, ENOENT)))
    ELSE Done(CbRes(0, [NoRes EXCEPT !.t = "fd", !.fd = r.fd]))

h_release(i, plat, rq, h) == Calls([NoCall EXCEPT !.fn = "close", !.handle = rq.handle])
cb_release(i, rq, r) ==
    IF r.err.is THEN Done(Cb(NegErrnoOr(r.err, EBADF)))
    ELSE Done(Cb(0))

h_releasedir(i, plat, rq, h) == Done(Cb(0))

h_read(i, plat, rq, h) ==
    Calls([NoCall EXCEPT !.fn = "read", !.handle = rq.handle, !.buf = rq.buf,
              !.bufOffset = 0, !.len = rq.len, !.hasPos = TRUE, !.pos = rq.offset])
cb_read(i, rq, r) ==
    IF r.err.is THEN Done(Cb(NegErrnoOr(r.err, EBADF)))
    ELSE Done(Cb(r.n))

\* The buffer the write handler hands to the backend, and the heap after it:
\* `buf = Buffer.from(buf)`.
write_buf_shared(h, buf) == [id |-> buf, heap |-> h]
write_buf(h, buf) == BufferFrom(h, buf)
\* The file position the write handler passes on: "func" passes none.
write_pos(i, offset) == [has |-> i = "class", v |-> IF i = "class" THEN offset ELSE 0]
h_write(i, plat, rq, h) ==
    Calls([NoCall EXCEPT !.fn = "write", !.handle = rq.handle,
              !.buf = write_buf(h, rq.buf).id, !.bufOffset = 0, !.len = rq.len,
              !.hasPos = write_pos(i, rq.offset).has, !.pos = write_pos(i, rq.offset).v])
cb_write(i, rq, r) ==
    IF r.err.is THEN Done(Cb(NegErrnoOr(r.err, EBADF)))
    ELSE Done(Cb(r.n))

h_truncate(i, plat, rq, h) ==
    Calls([NoCall EXCEPT !.fn = "truncate", !.path = rq.path, !.size = rq.size])
cb_truncate(i, rq, r) ==
    IF r.err.is THEN Done(Cb(NegErrnoOr(r.err, EPERM)))
    ELSE Done(Cb(0))

h_ftruncate(i, plat, rq, h) ==
    Calls([NoCall EXCEPT !.fn = "ftruncate", !.handle = rq.handle, !.size = rq.size])
cb_ftruncate(i, rq, r) ==
    IF r.err.is THEN Done(Cb(NegErrnoOr(r.err, EPERM)))
    ELSE Done(Cb(0))

h_unlink(i, plat, rq, h) == Calls([NoCall EXCEPT !.fn = "unlink", !.path = rq.path])
cb_unlink(i, rq, r) ==
    IF r.err.is THEN Done(Cb(NegErrnoOr(r.err, ENOENT)))
    ELSE Done(Cb(0))

h_mkdir(i, plat, rq, h) ==
    Calls([NoCall EXCEPT !.fn = "mkdir", !.path = rq.path,
              !.attrs = AttrOpts(rq.mode, getuid, getgid)])
cb_mkdir(i, rq, r) ==
    IF r.err.is THEN Done(Cb(NegErrnoOr(r.err, EPERM)))
    ELSE Done(Cb(0))

h_rmdir(i, plat, rq, h) == Calls([NoCall EXCEPT !.fn = "rmdir", !.path = rq.path])
cb_rmdir(i, rq, r) ==
    IF r.err.is THEN Done(Cb(NegErrnoOr(r.err, ENOENT)))
    ELSE Done(Cb(0))

h_create(i, plat, rq, h) ==
    Calls([NoCall EXCEPT !.fn = "create", !.path = rq.path,
              !.attrs = AttrOpts(rq.mode, getuid, getgid)])
\* What the callback of drive.create reports when create failed: "func"
\* passes the Error object itself.
create_failed(i, err) ==
    IF i = "class" THEN Cb(NegErrnoOr(err, ENOENT)) ELSE CbErrObj(err)
\* The callback of drive.create (st = 1) and the callback of drive.open (st = 2).
cb_create(i, rq, r, st) ==
    IF st = 1
    THEN IF r.err.is THEN Done(create_failed(i, r.err))
         ELSE Calls([NoCall EXCEPT !.fn = "open", !.path = rq.path,
                        !.flags = [layout |-> "string", sem |-> {"w"}]])
    ELSE IF r.err.is THEN Done(Cb(NegErrnoOr(r.err, ENOENT)))
         ELSE Done(CbRes(0, [NoRes EXCEPT !.t = "fd", !.fd = r.fd]))

h_chown(i, plat, rq, h) ==
    Calls([NoCall EXCEPT !.fn = "_update", !.path = rq.path,
              !.attrs = [NoPatch EXCEPT !.keys = {"uid", "gid"}, !.uid = rq.uid, !.gid = rq.gid]])
cb_chown(i, rq, r) ==
    IF r.err.is THEN Done(Cb(EPERM))
    ELSE Done(Cb(0))

\* chmod sending the options of mkdir / create: the mode with the owner of
\* the invoking process.
h_chmod_with_owner(i, plat, rq, h) ==
    Calls([NoCall EXCEPT !.fn = "_update", !.path = rq.path,
              !.attrs = AttrOpts(rq.mode, getuid, getgid)])
h_chmod(i, plat, rq, h) ==
    Calls([NoCall EXCEPT !.fn = "_update", !.path = rq.path,
              !.attrs = [NoPatch EXCEPT !.keys = {"mode"}, !.mode = rq.mode]])
cb_chmod(i, rq, r) ==
    IF r.err.is THEN Done(Cb(EPERM))
    ELSE Done(Cb(0))

\* "func" converts the two Date arguments with getTime().
h_utimens(i, plat, rq, h) ==
    Calls([NoCall EXCEPT !.fn = "_update", !.path = rq.path,
              !.attrs = [NoPatch EXCEPT !.keys = {"atime", "mtime"},
                            !.atime = IF i = "class" THEN rq.atime ELSE getTime(rq.atime),
                            !.mtime = IF i = "class" THEN rq.mtime ELSE getTime(rq.mtime)]])
cb_utimens(i, rq, r) ==
    IF r.err.is THEN Done(Cb(EPERM))
    ELSE Done(Cb(0))

h_symlink(i, plat, rq, h) ==
    Calls([NoCall EXCEPT !.fn = "symlink", !.target = rq.target, !.path = rq.path])
cb_symlink(i, rq, r) ==
    IF r.err.is THEN Done(Cb(NegErrnoOr(r.err, EPERM)))
    ELSE Done(Cb(0))

h_readlink(i, plat, rq, h) == Calls([NoCall EXCEPT !.fn = "lstat", !.path = rq.path])
\* The path readlink reports for the link target the backend stores.
readlink_resolved(i, path, linkname) ==
    IF i = "class"
    THEN IF isAbsolute(linkname) THEN join(mnt, linkname) ELSE linkname
    ELSE join(mnt, resolve(dirname(path), linkname))
\* p.isAbsolute / p.resolve throw a TypeError on a link target that is no
\* string: the exception leaves the callback before cb is invoked.
cb_readlink(i, rq, r) ==
    IF r.err.is THEN Done(Cb(NegErrnoOr(r.err, ENOENT)))
    ELSE IF ~r.stat.linkname.isStr THEN Threw
    ELSE Done(CbRes(0, [NoRes EXCEPT !.t = "path",
                           !.path = readlink_resolved(i, rq.path, r.stat.linkname)]))

h_statfs(i, plat, rq, h) == Done(CbRes(0, [NoRes EXCEPT !.t = "statfs", !.statfs = 1000000]))

\* "func": cb(0) at once. "class": on darwin the test is on the PATH
\* (`path.startsWith('com.apple')`), not on the attribute name.
startsWithComApple(str) == str.isStr /\ ~str.abs /\ str.segs # <<>> /\ str.segs[1] = "com.apple"
\* setxattr handing setMetadata its `position` argument in place of the
\* value buffer.
h_setxattr_wrong_arg(i, plat, rq, h) ==
    IF i = "func" THEN Done(Cb(0))
    ELSE IF plat = "darwin" /\ startsWithComApple(rq.path) THEN Done(Cb(0))
    ELSE Calls([NoCall EXCEPT !.fn = "setMetadata", !.path = rq.path, !.name = rq.name,
                   !.value = "0"])
h_setxattr(i, plat, rq, h) ==
    IF i = "func" THEN Done(Cb(0))
    ELSE IF plat = "darwin" /\ startsWithComApple(rq.path) THEN Done(Cb(0))
    ELSE Calls([NoCall EXCEPT !.fn = "setMetadata", !.path = rq.path, !.name = rq.name,
                   !.value = rq.value])
cb_setxattr(i, rq, r) ==
    IF r.err.is THEN Done(Cb(NegErrnoOr(r.err, EPERM)))
    ELSE Done(Cb(0))

h_getxattr(i, plat, rq, h) ==
    IF i = "func" THEN Done(Cb(0))
    ELSE Calls([NoCall EXCEPT !.fn = "stat", !.path = rq.path])
\* stat.metadata[name]: undefined when the map has no such key.
cb_getxattr(i, rq, r) ==
    IF r.err.is THEN Done(Cb(NegErrnoOr(r.err, EPERM)))
    ELSE IF ~r.stat.metadata.has THEN Done(CbRes(0, [NoRes EXCEPT !.t = "null"]))
    ELSE IF rq.name \in DOMAIN r.stat.metadata.map
    THEN Done(CbRes(0, [NoRes EXCEPT !.t = "value", !.hasValue = TRUE,
                           !.value = r.stat.metadata.map[rq.name]]))
    ELSE Done(CbRes(0, [NoRes EXCEPT !.t = "value"]))

h_listxattr(i, plat, rq, h) == Calls([NoCall EXCEPT !.fn = "stat", !.path = rq.path])
cb_listxattr(i, rq, r) ==
    IF r.err.is THEN Done(Cb(NegErrnoOr(r.err, EPERM)))
    ELSE IF ~r.stat.metadata.has THEN Done(CbRes(0, [NoRes EXCEPT !.t = "names"]))
    ELSE Done(CbRes(0, [NoRes EXCEPT !.t = "names", !.names = DOMAIN r.stat.metadata.map]))

h_removexattr(i, plat, rq, h) ==
    Calls([NoCall EXCEPT !.fn = "removeMetadata", !.path = rq.path, !.name = rq.name])
cb_removexattr(i, rq, r) ==
    IF r.err.is THEN Done(Cb(NegErrnoOr(r.err, EPERM)))
    ELSE Done(Cb(0))

\* The handler table of each variant.
ClassOps ==
    {"getattr", "readdir", "open", "release", "releasedir", "read", "write",
     "truncate", "ftruncate", "unlink", "mkdir", "rmdir", "create", "chown", "chmod",
     "utimens", "symlink", "readlink", "statfs", "setxattr", "getxattr", "listxattr",
     "removexattr"}
FuncOps == ClassOps \ {"ftruncate", "listxattr", "removexattr"}
Ops(i) == IF i = "class" THEN ClassOps ELSE FuncOps

\* Dispatch: the handler of rq.op, run on the heap h.
Handle(i, plat, rq, h) ==
    CASE rq.op = "getattr" -> h_getattr(i, plat, rq, h)
      [] rq.op = "readdir" -> h_readdir(i, plat, rq, h)
      [] rq.op = "open" -> h_open(i, plat, rq, h)
      [] rq.op = "release" -> h_release(i, plat, rq, h)
      [] rq.op = "releasedir" -> h_releasedir(i, plat, rq, h)
      [] rq.op = "read" -> h_read(i, plat, rq, h)
      [] rq.op = "write" -> h_write(i, plat, rq, h)
      [] rq.op = "truncate" -> h_truncate(i, plat, rq, h)
      [] rq.op = "ftruncate" -> h_ftruncate(i, plat, rq, h)
      [] rq.op = "unlink" -> h_unlink(i, plat, rq, h)
      [] rq.op = "mkdir" -> h_mkdir(i, plat, rq, h)
      [] rq.op = "rmdir" -> h_rmdir(i, plat, rq, h)
      [] rq.op = "create" -> h_create(i, plat, rq, h)
      [] rq.op = "chown" -> h_chown(i, plat, rq, h)
      [] rq.op = "chmod" -> h_chmod(i, plat, rq, h)
      [] rq.op = "utimens" -> h_utimens(i, plat, rq, h)
      [] rq.op = "symlink" -> h_symlink(i, plat, rq, h)
      [] rq.op = "readlink" -> h_readlink(i, plat, rq, h)
      [] rq.op = "statfs" -> h_statfs(i, plat, rq, h)
      [] rq.op = "setxattr" -> h_setxattr(i, plat, rq, h)
      [] rq.op = "getxattr" -> h_getxattr(i, plat, rq, h)
      [] rq.op = "listxattr" -> h_listxattr(i, plat, rq, h)
      [] rq.op = "removexattr" -> h_removexattr(i, plat, rq, h)

\* The heap after the synchronous part of the handler ran: only write
\* allocates (Buffer.from).
HeapAfter(i, rq, h) == IF rq.op = "write" THEN write_buf(h, rq.buf).heap ELSE h

\* The callback the handler gave to its st-th backend call, run with reply r.
Callback(i, rq, r, st) ==
    CASE rq.op = "getattr" -> cb_getattr(i, rq, r)
      [] rq.op = "readdir" -> cb_readdir(i, rq, r)
      [] rq.op = "open" -> cb_open(i, rq, r)
      [] rq.op = "release" -> cb_release(i, rq, r)
      [] rq.op = "read" -> cb_read(i, rq, r)
      [] rq.op = "write" -> cb_write(i, rq, r)
      [] rq.op = "truncate" -> cb_truncate(i, rq, r)
      [] rq.op = "ftruncate" -> cb_ftruncate(i, rq, r)
      [] rq.op = "unlink" -> cb_unlink(i, rq, r)
      [] rq.op = "mkdir" -> cb_mkdir(i, rq, r)
      [] rq.op = "rmdir" -> cb_rmdir(i, rq, r)
      [] rq.op = "create" -> cb_create(i, rq, r, st)
      [] rq.op = "chown" -> cb_chown(i, rq, r)
      [] rq.op = "chmod" -> cb_chmod(i, rq, r)
      [] rq.op = "utimens" -> cb_utimens(i, rq, r)
      [] rq.op = "symlink" -> cb_symlink(i, rq, r)
      [] rq.op = "readlink" -> cb_readlink(i, rq, r)
      [] rq.op = "setxattr" -> cb_setxattr(i, rq, r)
      [] rq.op = "getxattr" -> cb_getxattr(i, rq, r)
      [] rq.op = "listxattr" -> cb_listxattr(i, rq, r)
      [] rq.op = "removexattr" -> cb_removexattr(i, rq, r)

\* ---- the backend store and the data of the round trip ------------------
\* The backend of the round trip keeps one file: a write stores the payload at
\* the position it is given (at the position after the last write of the
\* handle when it is given none), a read returns the bytes from the position
\* up to the end of the file.
StoreWrite(f, at, data) ==
    LET n == IF Len(f) > at + Len(data) THEN Len(f) ELSE at + Len(data) IN
    [j \in 1..n |-> IF j > at /\ j <= at + Len(data) THEN data[j - at]
                    ELSE IF j <= Len(f) THEN f[j] ELSE 0]
StoreRead(f, at, len) ==
    SubSeq(f, at + 1, IF at + len < Len(f) THEN at + len ELSE Len(f))

\* The caller's data: N slices of S bytes, byte j of the content is j.
Content(n) == [j \in 1..n |-> j]
\* bytes copied into buffer b from its start, the rest of b kept.
Fill(b, bytes) == [j \in 1..Len(b) |-> IF j <= Len(bytes) THEN bytes[j] ELSE b[j]]

RTBufLen == IF MaxSliceSize > MaxReadSize THEN MaxSliceSize ELSE MaxReadSize

\* The backend drive before any request: no path has an attribute map, no
\* descriptor is open; nothing has been asked for yet.
DriveIdle ==
    /\ drive = [meta |-> <<>>, attrs |-> <<>>, open |-> {}, issued |-> 0]
    /\ hist = [xattr |-> <<>>, attrs |-> <<>>, released |-> {}, late |-> {}]

StoreIdle ==
    /\ file = <<>>
    /\ fpos = 0
    /\ script = [phase |-> "none", k |-> 0, N |-> 0, S |-> 0, R |-> 0, fd |-> 0]
    /\ chunks = <<>>
    /\ DriveIdle

\* ---- serving requests ---------------------------------------------------
\* Requests are served in slots: a slot holds one kernel request from the
\* invocation of its handler to the end of the handler's last callback.
Slots == 1..MaxSlots

\* Buffer 1 of the heap is the buffer of the kernel transport, which it uses
\* for every request; the handlers allocate the buffers after it.
KernelHeap(h) == SubSeq(h, 1, 1)
BufContents == [1..BufLen -> Bytes]

HandlerIdle ==
    /\ req = [s \in Slots |-> NoReq]
    /\ hpc = [s \in Slots |-> "idle"]
    /\ stage = [s \in Slots |-> 0]
    /\ bcalls = [s \in Slots |-> <<>>]
    /\ replies = [s \in Slots |-> <<>>]
    /\ cbs = [s \in Slots |-> <<>>]
    /\ given = [s \in Slots |-> <<>>]
    /\ consumed = [s \in Slots |-> <<>>]

\* The kernel transport invokes the handler of rq in slot s, on the heap h0.
Invoke(s, rq, h0) ==
    LET out == Handle(impl, platform, rq, h0) IN
    /\ req' = [req EXCEPT ![s] = rq]
    /\ hpc' = [hpc EXCEPT ![s] = out.pc]
    /\ stage' = [stage EXCEPT ![s] = 0]
    /\ bcalls' = [bcalls EXCEPT ![s] = IF out.pc = "wait" THEN <<out.call>> ELSE <<>>]
    /\ replies' = [replies EXCEPT ![s] = <<>>]
    /\ cbs' = [cbs EXCEPT ![s] = out.cbs]
    /\ given' = [given EXCEPT ![s] = IF rq.buf = 0 THEN <<>> ELSE h0[rq.buf]]
    /\ heap' = HeapAfter(impl, rq, h0)

\* The backend invokes the callback of the pending call of slot s with r.
Reply(s, r) ==
    LET out == Callback(impl, req[s], r, stage[s] + 1) IN
    /\ hpc[s] = "wait"
    /\ stage' = [stage EXCEPT ![s] = stage[s] + 1]
    /\ replies' = [replies EXCEPT ![s] = Append(replies[s], r)]
    /\ hpc' = [hpc EXCEPT ![s] = out.pc]
    /\ bcalls' = [bcalls EXCEPT ![s] = IF out.pc = "wait" THEN Append(bcalls[s], out.call)
                                      ELSE bcalls[s]]
    /\ cbs' = [cbs EXCEPT ![s] = cbs[s] \o out.cbs]
    /\ UNCHANGED <<req, given>>

\* The call of slot s the backend has not answered yet.
Pending(s) == IF bcalls[s] = <<>> THEN NoCall ELSE bcalls[s][Len(bcalls[s])]

\* ---- the requests and the replies the handler specification draws ------
SomePaths == {Root, AbsPath(<<"a">>), AbsPath(<<"d", "l">>)}
SomeHandles == {1, 2}
SomeModes == {420, 493}
SomeIds == {"0", "501"}
SomeNames == {"test", "com.apple.quarantine"}
SomeValues == {"v1", "v2"}
SomeTargets == {RelPath(<<"a">>), RelPath(<<"..", "c">>), AbsPath(<<"x">>)}
SomeFlags(plat) ==
    {[layout |-> plat, sem |-> f] :
        f \in {{}, {"O_WRONLY", "O_CREAT"}, {"O_RDWR", "O_DIRECT"}}}

\* The requests the kernel may send for operation op on platform plat.
Requests(op, plat) ==
    IF op \in {"getattr", "readdir", "unlink", "rmdir", "readlink", "statfs", "listxattr"}
    THEN {[NoReq EXCEPT !.op = op, !.path = p] : p \in SomePaths}
    ELSE IF op = "open"
    THEN {[NoReq EXCEPT !.op = op, !.path = p, !.flags = f] :
             p \in {AbsPath(<<"a">>)}, f \in SomeFlags(plat)}
    ELSE IF op \in {"release", "releasedir"}
    THEN {[NoReq EXCEPT !.op = op, !.path = AbsPath(<<"a">>), !.handle = hd] :
             hd \in SomeHandles}
    ELSE IF op \in {"read", "write"}
    THEN {[NoReq EXCEPT !.op = op, !.path = AbsPath(<<"a">>), !.handle = hd, !.buf = 1,
                        !.len = n, !.offset = o] :
             hd \in SomeHandles, n \in 1..BufLen, o \in {0, BufLen}}
    ELSE IF op = "truncate"
    THEN {[NoReq EXCEPT !.op = op, !.path = AbsPath(<<"a">>), !.size = z] : z \in {0, 1}}
    ELSE IF op = "ftruncate"
    THEN {[NoReq EXCEPT !.op = op, !.path = AbsPath(<<"a">>), !.handle = hd, !.size = z] :
             hd \in SomeHandles, z \in {0, 1}}
    ELSE IF op \in {"mkdir", "create", "chmod"}
    THEN {[NoReq EXCEPT !.op = op, !.path = AbsPath(<<"a">>), !.mode = m] : m \in SomeModes}
    ELSE IF op = "chown"
    THEN {[NoReq EXCEPT !.op = op, !.path = AbsPath(<<"a">>), !.uid = u, !.gid = g] :
             u \in SomeIds, g \in SomeIds}
    ELSE IF op = "utimens"
    THEN {[NoReq EXCEPT !.op = op, !.path = AbsPath(<<"a">>), !.atime = DateOf(a),
                        !.mtime = DateOf(m)] : a \in {1, 2}, m \in {2}}
    ELSE IF op = "symlink"
    THEN {[NoReq EXCEPT !.op = op, !.path = AbsPath(<<"l">>), !.target = t] :
             t \in SomeTargets}
    ELSE IF op = "setxattr"
    THEN {[NoReq EXCEPT !.op = op, !.path = AbsPath(<<"a">>), !.name = n, !.value = v] :
             n \in SomeNames, v \in SomeValues}
    ELSE \* getxattr, removexattr
         {[NoReq EXCEPT !.op = op, !.path = AbsPath(<<"a">>), !.name = n] : n \in SomeNames}

\* The errors a backend call may fail with: no errno, or errno 0, positive
\* (POSIX style) or negative (libuv style).
SomeErrs == {ErrPlain, ErrWith(0), ErrWith(2), ErrWith(13), ErrWith(-2)}
SomeStats ==
    {Stat("0", "0", l, m) :
        l \in {NoPath} \cup SomeTargets,
        m \in {NoMeta, Meta(<<>>), Meta("test" :> "v1")}}

\* The replies the backend may give to call c.
Answers(c) ==
    {Failure(e) : e \in SomeErrs} \cup
    (IF c.fn \in {"lstat", "stat"} THEN {[NoReply EXCEPT !.stat = st] : st \in SomeStats}
     ELSE IF c.fn = "readdir" THEN {[NoReply EXCEPT !.files = f] : f \in {<<>>, <<"1", "2">>}}
     ELSE IF c.fn = "open" THEN {[NoReply EXCEPT !.fd = hd] : hd \in SomeHandles}
     ELSE IF c.fn \in {"read", "write"} THEN {[NoReply EXCEPT !.n = n] : n \in 0..c.len}
     ELSE {NoReply})

\* The kernel sends a request.
HInvoke(rq) ==
    /\ hpc[1] = "idle"
    /\ Invoke(1, rq, KernelHeap(heap))
    /\ UNCHANGED <<impl, platform, consumed, lifecycleVars, storeVars>>

HReply(r) ==
    /\ hpc[1] = "wait"
    /\ r \in Answers(Pending(1))
    /\ Reply(1, r)
    /\ UNCHANGED <<impl, platform, heap, consumed, lifecycleVars, storeVars>>

\* The request is over (its handler completed it, or threw): the slot is free
\* for the next request.
HRetire ==
    /\ hpc[1] \in {"done", "threw"}
    /\ req' = [req EXCEPT ![1] = NoReq]
    /\ hpc' = [hpc EXCEPT ![1] = "idle"]
    /\ stage' = [stage EXCEPT ![1] = 0]
    /\ bcalls' = [bcalls EXCEPT ![1] = <<>>]
    /\ replies' = [replies EXCEPT ![1] = <<>>]
    /\ cbs' = [cbs EXCEPT ![1] = <<>>]
    /\ given' = [given EXCEPT ![1] = <<>>]
    /\ heap' = KernelHeap(heap)
    /\ UNCHANGED <<impl, platform, consumed, lifecycleVars, storeVars>>

InitHandlers ==
    /\ impl \in Impl
    /\ platform \in Platforms
    /\ LifecycleInit
    /\ HandlerIdle
    /\ StoreIdle
    /\ heap = <<[j \in 1..BufLen |-> 0]>>

NextHandlers ==
    \/ \E op \in Ops(impl) : \E rq \in Requests(op, platform) : HInvoke(rq)
    \/ \E r \in Answers(Pending(1)) : HReply(r)
    \/ HRetire

SpecHandlers == InitHandlers /\ [][NextHandlers]_vars

\* ---- concurrent writes and the caller's buffer -------------------------
\* The bytes a backend method reads from (or writes to) the buffer of call c.
Payload(h, c) == SubSeq(h[c.buf], c.bufOffset + 1, c.bufOffset + c.len)

\* Slot s serves one write, on its own handle and path; the buffer of the
\* kernel transport holds the payload and nothing else (len bytes).
SlotPath(s) == AbsPath(<<"f", ToString(s)>>)
WriteRequests(s) ==
    {[NoReq EXCEPT !.op = "write", !.path = SlotPath(s), !.handle = s, !.buf = b,
                   !.len = BufLen, !.offset = o] : b \in {1}, o \in {0}}

\* The kernel transport invokes the write handler; the handler returns
\* control once drive.write has been called.
WInvoke(s, rq) ==
    /\ hpc[s] = "idle"
    /\ \A t \in Slots : t < s => hpc[t] # "idle"
    /\ Invoke(s, rq, heap)
    /\ UNCHANGED <<impl, platform, consumed, lifecycleVars, storeVars>>

\* The kernel transport reuses its buffer b for the next payload.
Overwrite(b, bytes) ==
    /\ \E s \in Slots : hpc[s] = "wait"
    /\ heap[b] # bytes
    /\ heap' = [heap EXCEPT ![b] = bytes]
    /\ UNCHANGED <<impl, platform, req, hpc, stage, bcalls, replies, cbs, given, consumed,
                   lifecycleVars, storeVars>>

\* The backend flushes the write of slot s: it reads the payload from the
\* buffer it was handed, as that buffer is now, and calls back.
WConsume(s) ==
    /\ hpc[s] = "wait"
    /\ consumed' = [consumed EXCEPT ![s] = Payload(heap, Pending(s))]
    /\ Reply(s, [NoReply EXCEPT !.n = Pending(s).len])
    /\ UNCHANGED <<impl, platform, heap, lifecycleVars, storeVars>>

\* The backend fails the write of slot s without reading the payload.
WFail(s, e) ==
    /\ hpc[s] = "wait"
    /\ Reply(s, Failure(e))
    /\ UNCHANGED <<impl, platform, heap, consumed, lifecycleVars, storeVars>>

InitWrite ==
    /\ impl \in Impl
    /\ platform = "linux"
    /\ LifecycleInit
    /\ HandlerIdle
    /\ StoreIdle
    /\ heap \in [{1} -> BufContents]

NextWrite ==
    \/ \E s \in Slots : \E rq \in WriteRequests(s) : WInvoke(s, rq)
    \/ \E bytes \in BufContents : Overwrite(1, bytes)
    \/ \E s \in Slots : WConsume(s)
    \/ \E s \in Slots : WFail(s, ErrPlain)

SpecWrite == InitWrite /\ [][NextWrite]_vars

\* ---- the round trip of the tests: write, release, read back ----------
\* writeData / readData of the test: open, N writes, close, open, reads, close.
RTOpen ==
    /\ script.phase \in {"openw", "openr"}
    /\ hpc[1] \in {"idle", "done"}
    /\ Invoke(1, [NoReq EXCEPT !.op = "open", !.path = AbsPath(<<"hello">>),
                     !.flags = [layout |-> platform,
                                sem |-> IF script.phase = "openw"
                                        THEN {"O_RDWR", "O_CREAT", "O_TRUNC"} ELSE {}]],
              heap)
    /\ UNCHANGED <<impl, platform, consumed, lifecycleVars, storeVars>>

\* The backend opens the file: a new descriptor, positioned at the start.
RTBackendOpen ==
    /\ hpc[1] = "wait" /\ Pending(1).fn = "open"
    /\ Reply(1, [NoReply EXCEPT !.fd = script.fd + 1])
    /\ fpos' = 0
    /\ script' = [script EXCEPT !.fd = script.fd + 1, !.k = 0,
                     !.phase = IF script.phase = "openw" THEN "write" ELSE "read"]
    /\ UNCHANGED <<impl, platform, heap, consumed, file, chunks, drive, hist, lifecycleVars>>

\* fs.write(fd, slice, 0, len): the kernel hands slice k to the write
\* handler in its buffer, at the file position the descriptor has reached.
RTWrite ==
    /\ script.phase = "write" /\ script.k < script.N
    /\ hpc[1] = "done"
    /\ LET slice == SubSeq(Content(script.N * script.S),
                           script.k * script.S + 1, (script.k + 1) * script.S)
       IN Invoke(1, [NoReq EXCEPT !.op = "write", !.path = AbsPath(<<"hello">>),
                        !.handle = script.fd, !.buf = 1, !.len = script.S,
                        !.offset = script.k * script.S],
                 [heap EXCEPT ![1] = Fill(heap[1], slice)])
    /\ UNCHANGED <<impl, platform, consumed, lifecycleVars, storeVars>>

RTBackendWrite ==
    /\ hpc[1] = "wait" /\ Pending(1).fn = "write"
    /\ LET c == Pending(1)
           at == IF c.hasPos THEN c.pos ELSE fpos
       IN /\ file' = StoreWrite(file, at, Payload(heap, c))
          /\ fpos' = at + c.len
          /\ consumed' = [consumed EXCEPT ![1] = Payload(heap, c)]
          /\ Reply(1, [NoReply EXCEPT !.n = c.len])
    /\ script' = [script EXCEPT !.k = script.k + 1]
    /\ UNCHANGED <<impl, platform, heap, chunks, drive, hist, lifecycleVars>>

\* fs.close(fd): the release handler.
RTRelease ==
    /\ \/ script.phase = "write" /\ script.k = script.N
       \/ script.phase = "read" /\ script.k * script.R >= script.N * script.S
    /\ hpc[1] = "done"
    /\ Invoke(1, [NoReq EXCEPT !.op = "release", !.path = AbsPath(<<"hello">>),
                     !.handle = script.fd], heap)
    /\ UNCHANGED <<impl, platform, consumed, lifecycleVars, storeVars>>

RTBackendClose ==
    /\ hpc[1] = "wait" /\ Pending(1).fn = "close"
    /\ Reply(1, NoReply)
    /\ script' = [script EXCEPT !.phase = IF script.phase = "write" THEN "openr" ELSE "end"]
    /\ UNCHANGED <<impl, platform, heap, consumed, file, fpos, chunks, drive, hist,
                   lifecycleVars>>

\* fs.read(fd, buf, 0, R, k * R): chunk k.
RTRead ==
    /\ script.phase = "read" /\ script.k * script.R < script.N * script.S
    /\ hpc[1] = "done"
    /\ Invoke(1, [NoReq EXCEPT !.op = "read", !.path = AbsPath(<<"hello">>),
                     !.handle = script.fd, !.buf = 1, !.len = script.R,
                     !.offset = script.k * script.R], heap)
    /\ UNCHANGED <<impl, platform, consumed, lifecycleVars, storeVars>>

\* The backend copies the bytes into the buffer and reports their number; the
\* caller keeps the first `status` bytes of its buffer as chunk k.
RTBackendRead ==
    /\ hpc[1] = "wait" /\ Pending(1).fn = "read"
    /\ LET c == Pending(1)
           data == StoreRead(file, c.pos, c.len)
           r == [NoReply EXCEPT !.n = Len(data)]
           out == Callback(impl, req[1], r, 1)
           h2 == [heap EXCEPT ![c.buf] = Fill(heap[c.buf], data)]
       IN /\ heap' = h2
          /\ Reply(1, r)
          /\ chunks' = Append(chunks, [status |-> out.cbs[1].status,
                                       bytes |-> SubSeq(h2[1], 1, out.cbs[1].status)])
    /\ script' = [script EXCEPT !.k = script.k + 1]
    /\ UNCHANGED <<impl, platform, consumed, file, fpos, drive, hist, lifecycleVars>>

InitRoundTrip ==
    /\ impl \in Impl
    /\ platform \in Platforms
    /\ LifecycleInit
    /\ HandlerIdle
    /\ file = <<>>
    /\ fpos = 0
    /\ chunks = <<>>
    /\ DriveIdle
    /\ \E n \in 1..MaxSlices, sz \in 1..MaxSliceSize, rd \in 1..MaxReadSize :
          script = [phase |-> "openw", k |-> 0, N |-> n, S |-> sz, R |-> rd, fd |-> 0]
    /\ heap = <<[j \in 1..RTBufLen |-> 0]>>

NextRoundTrip ==
    \/ RTOpen
    \/ RTBackendOpen
    \/ RTWrite
    \/ RTBackendWrite
    \/ RTRelease
    \/ RTBackendClose
    \/ RTRead
    \/ RTBackendRead

SpecRoundTrip == InitRoundTrip /\ [][NextRoundTrip]_vars

\* ------------------------------------------------------------- lifecycle
\* Calls are issued in the order of their ids.
NextMount(c) == mpc[c] = "idle" /\ \A d \in MountCalls : d < c => mpc[d] # "idle"
NextUnmount(u) == upc[u] = "idle" /\ \A v \in UnmountCalls : v < u => upc[v] # "idle"

\* The remount guard of HyperdriveFuse.mount: `if (this.fuse) throw ...`.
MountGuardNoCheck(f) == FALSE
MountGuard(f) == f # 0

\* HyperdriveFuse.mount(handlers), up to the first suspension: the guard, the
\* construction of the transport object and the call of drive.ready.
ClassMountCall(c) ==
    /\ impl = "class"
    /\ NextMount(c)
    /\ IF MountGuard(fuse)
       THEN /\ mpc' = [mpc EXCEPT ![c] = "rejected"]
            /\ mres' = [mres EXCEPT ![c] = RemountError]
            /\ UNCHANGED <<created, nready>>
       ELSE /\ created' = created \cup {c}
            /\ mpc' = [mpc EXCEPT ![c] = "ready"]
            /\ nready' = [nready EXCEPT ![c] = nready[c] + 1]
            /\ UNCHANGED mres
    /\ UNCHANGED <<impl, fuse, invoked, live, upc, ures, utarget, unmounted, mrep, urep,
                   handlerVars, storeVars>>

\* mount(drive, handlers, mnt, opts) of the function API, up to fs.stat(mnt).
FuncMountCall(c) ==
    /\ impl = "func"
    /\ NextMount(c)
    /\ mpc' = [mpc EXCEPT ![c] = "stat"]
    /\ UNCHANGED <<impl, nready, fuse, mres, created, invoked, live, upc, ures, utarget, unmounted, mrep, urep,
                   handlerVars, storeVars>>

\* The callback of fs.stat(mnt): err is "ok", StatENOENT or another error.
FuncStatDone(c, err) ==
    /\ impl = "func"
    /\ mpc[c] = "stat"
    /\ IF err # "ok" /\ err # StatENOENT
       THEN /\ mpc' = [mpc EXCEPT ![c] = "rejected"]
            /\ mres' = [mres EXCEPT ![c] = err]
            /\ UNCHANGED nready
       ELSE IF err = StatENOENT
       THEN /\ mpc' = [mpc EXCEPT ![c] = "mkdirp"]
            /\ UNCHANGED <<mres, nready>>
       ELSE /\ mpc' = [mpc EXCEPT ![c] = "ready"]
            /\ nready' = [nready EXCEPT ![c] = nready[c] + 1]
            /\ UNCHANGED mres
    /\ mrep' = [mrep EXCEPT ![c] = err]
    /\ UNCHANGED <<impl, fuse, created, invoked, live, upc, ures, utarget, unmounted, urep,
                   handlerVars, storeVars>>

\* The callback of mkdirp(mnt).
FuncMkdirpDone(c, err) ==
    /\ impl = "func"
    /\ mpc[c] = "mkdirp"
    /\ IF err # "ok"
       THEN /\ mpc' = [mpc EXCEPT ![c] = "rejected"]
            /\ mres' = [mres EXCEPT ![c] = err]
            /\ UNCHANGED nready
       ELSE /\ mpc' = [mpc EXCEPT ![c] = "ready"]
            /\ nready' = [nready EXCEPT ![c] = nready[c] + 1]
            /\ UNCHANGED mres
    /\ mrep' = [mrep EXCEPT ![c] = err]
    /\ UNCHANGED <<impl, fuse, created, invoked, live, upc, ures, utarget, unmounted, urep,
                   handlerVars, storeVars>>

\* What the callback of drive.ready does with the error it is given.
ReadyRejectsNever(err) == FALSE
ReadyRejects(err) == err # "ok"

\* The callback of drive.ready: reject, or invoke the transport's mount.
ReadyDone(c, err) ==
    /\ mpc[c] = "ready"
    /\ IF ReadyRejects(err)
       THEN /\ mpc' = [mpc EXCEPT ![c] = "rejected"]
            /\ mres' = [mres EXCEPT ![c] = err]
            /\ UNCHANGED invoked
       ELSE /\ mpc' = [mpc EXCEPT ![c] = "fmount"]
            /\ invoked' = Append(invoked, c)
            /\ UNCHANGED mres
    /\ mrep' = [mrep EXCEPT ![c] = err]
    /\ UNCHANGED <<impl, nready, fuse, created, live, upc, ures, utarget, unmounted, urep,
                   handlerVars, storeVars>>

\* The handle `self.fuse` holds after the callback of fuse.mount ran with err.
FuseAfterMountAlways(f, c, err) == c
FuseAfterMount(f, c, err) == IF err # "ok" THEN f ELSE c

\* The callback of the transport's mount. The registration is live when the
\* transport reported success.
FuseMountDone(c, err) ==
    /\ mpc[c] = "fmount"
    /\ IF err # "ok"
       THEN /\ mpc' = [mpc EXCEPT ![c] = "rejected"]
            /\ mres' = [mres EXCEPT ![c] = err]
            /\ UNCHANGED live
       ELSE /\ mpc' = [mpc EXCEPT ![c] = "resolved"]
            /\ mres' = [mres EXCEPT ![c] = "resolved"]
            /\ live' = live \cup {c}
    /\ fuse' = IF impl = "class" THEN FuseAfterMount(fuse, c, err) ELSE fuse
    /\ mrep' = [mrep EXCEPT ![c] = err]
    /\ UNCHANGED <<impl, nready, created, invoked, upc, ures, utarget, unmounted, urep,
                   handlerVars, storeVars>>

\* HyperdriveFuse.unmount(): `if (!this.fuse) return null`, else the
\* transport's unmount is invoked on the recorded handle.
ClassUnmountCall(u) ==
    /\ impl = "class"
    /\ NextUnmount(u)
    /\ IF fuse = 0
       THEN /\ upc' = [upc EXCEPT ![u] = "null"]
            /\ UNCHANGED <<utarget, unmounted>>
       ELSE /\ upc' = [upc EXCEPT ![u] = "funmount"]
            /\ utarget' = [utarget EXCEPT ![u] = fuse]
            /\ unmounted' = Append(unmounted, fuse)
    /\ UNCHANGED <<impl, nready, fuse, mpc, mres, created, invoked, live, ures, mrep, urep,
                   handlerVars, storeVars>>

\* unmount(mnt, cb) of the function API: fuse.unmount(mnt, ...) at once.
FuncUnmountCall(u) ==
    /\ impl = "func"
    /\ NextUnmount(u)
    /\ upc' = [upc EXCEPT ![u] = "funmount"]
    /\ unmounted' = Append(unmounted, 0)
    /\ UNCHANGED <<impl, nready, fuse, mpc, mres, created, invoked, live, ures, utarget, mrep, urep,
                   handlerVars, storeVars>>

\* The handle `this.fuse` holds after the callback of fuse.unmount ran.
FuseAfterUnmountCleared(f, err) == 0
FuseAfterUnmount(f, err) == f

\* The settlement of the promise of unmount() for the error reported.
UnmountSettles(err) == IF err # "ok" THEN err ELSE "resolved"

\* The callback of the transport's unmount. On success the registration the
\* call addressed is released (by mount path: one of the live ones).
UnmountDone(u, err, released) ==
    /\ upc[u] = "funmount"
    /\ released \subseteq live
    /\ IF err # "ok"
       THEN released = {}
       ELSE IF utarget[u] # 0
       THEN released = live \cap {utarget[u]}
       ELSE Cardinality(released) = IF live = {} THEN 0 ELSE 1
    /\ live' = live \ released
    /\ upc' = [upc EXCEPT ![u] = IF err # "ok" THEN "rejected" ELSE "resolved"]
    /\ ures' = [ures EXCEPT ![u] = UnmountSettles(err)]
    /\ fuse' = FuseAfterUnmount(fuse, err)
    /\ urep' = [urep EXCEPT ![u] = err]
    /\ UNCHANGED <<impl, nready, mpc, mres, created, invoked, utarget, unmounted, mrep,
                   handlerVars, storeVars>>

InitMount ==
    /\ impl \in Impl
    /\ LifecycleInit
    /\ platform = "linux"
    /\ HandlerIdle
    /\ StoreIdle
    /\ heap = <<>>

NextMountSpec ==
    \/ \E c \in MountCalls : ClassMountCall(c)
    \/ \E c \in MountCalls : FuncMountCall(c)
    \/ \E c \in MountCalls, err \in Errs \cup {"ok", StatENOENT} : FuncStatDone(c, err)
    \/ \E c \in MountCalls, err \in Errs \cup {"ok"} : FuncMkdirpDone(c, err)
    \/ \E c \in MountCalls, err \in Errs \cup {"ok"} : ReadyDone(c, err)
    \/ \E c \in MountCalls, err \in Errs \cup {"ok"} : FuseMountDone(c, err)
    \/ \E u \in UnmountCalls : ClassUnmountCall(u)
    \/ \E u \in UnmountCalls : FuncUnmountCall(u)
    \/ \E u \in UnmountCalls, err \in Errs \cup {"ok"}, released \in SUBSET MountCalls :
          UnmountDone(u, err, released)

SpecMount == InitMount /\ [][NextMountSpec]_vars

\* ======================================================= lifecycle claims

\* The session is Mounted: a mount() completed successfully, no unmount asked.
Mounted ==
    /\ impl = "class"
    /\ \E d \in MountCalls : mpc[d] = "resolved"
    /\ \A u \in UnmountCalls : upc[u] = "idle"

\* Mount call c runs its synchronous part in this step.
MountIssued(c) == mpc[c] = "idle" /\ mpc'[c] # "idle"
\* Unmount call u runs its synchronous part in this step.
UnmountIssued(u) == upc[u] = "idle" /\ upc'[u] # "idle"
\* A mount call is between its start and its settlement.
Mounting(c) == mpc[c] \in {"stat", "mkdirp", "ready", "fmount"}

\* C1: a mount() issued while the session is Mounted is rejected with the
\* remount error, constructs no transport object and does not invoke the
\* transport's mount again; no registration is added.
C1_RemountRejected ==
    [][\A c \in MountCalls :
          (Mounted /\ MountIssued(c)) =>
              /\ mpc'[c] = "rejected"
              /\ mres'[c] = RemountError
              /\ created' = created
              /\ invoked' = invoked
              /\ live' = live]_vars

C1_Witness ==
    /\ impl = "class"
    /\ \E c, d \in MountCalls :
          /\ mpc[d] = "resolved"
          /\ mpc[c] = "rejected" /\ mres[c] = RemountError
    /\ \A u \in UnmountCalls : upc[u] = "idle"
    /\ Cardinality(created) = 1 /\ Len(invoked) = 1

\* C6: a mount attempt to which the ready barrier or the transport's mount (or,
\* in the function API, fs.stat / mkdirp) reported an error is rejected with
\* that very error, never has its transport recorded as the session's handle,
\* and its failing step leaves the handle field and the registrations as they
\* were; while no mount has succeeded the session holds no handle, and a
\* mount() issued then is accepted as a first mount (proceeds to drive.ready).
C6_FailedMountLeavesUnmounted ==
    /\ [](\A c \in MountCalls :
             (mrep[c] \in Errs) =>
                 /\ mpc[c] = "rejected"
                 /\ mres[c] = mrep[c]
                 /\ fuse # c
                 /\ c \notin live)
    /\ []((\A d \in MountCalls : mpc[d] # "resolved") => fuse = 0)
    /\ [][\A c \in MountCalls :
             /\ (Mounting(c) /\ mpc'[c] = "rejected") =>
                    (fuse' = fuse /\ live' = live /\ mres'[c] = mrep'[c])
             /\ (impl = "class" /\ MountIssued(c)
                   /\ \A d \in MountCalls : mpc[d] # "resolved") =>
                    (mpc'[c] = "ready" /\ c \in created')]_vars

\* A first attempt failed at the transport's mount, the next one was accepted.
C6_Witness ==
    /\ impl = "class"
    /\ mpc[1] = "rejected" /\ mrep[1] = "Eb" /\ mres[1] = "Eb"
    /\ Len(invoked) >= 1 /\ invoked[1] = 1
    /\ fuse = 0
    /\ mpc[2] = "ready"

\* C7: when the transport's unmount reports an error, the promise of unmount()
\* is rejected with that very error, the failing step keeps the recorded
\* handle and the registrations; from then on every mount() is rejected as a
\* remount, and every unmount() invokes the transport's unmount again on the
\* recorded handle: the handle of the failed call, when the session
\* constructed a single transport.
C7_FailedUnmountStaysMounted ==
    /\ [](\A u \in UnmountCalls :
             (urep[u] \in Errs) => (upc[u] = "rejected" /\ ures[u] = urep[u]))
    /\ []((impl = "class" /\ \E u \in UnmountCalls : urep[u] \in Errs) => fuse # 0)
    /\ [][\A u \in UnmountCalls :
             /\ (upc[u] = "funmount" /\ urep'[u] \in Errs) =>
                    (fuse' = fuse /\ live' = live)
             /\ \A c \in MountCalls :
                    (impl = "class" /\ urep[u] \in Errs /\ MountIssued(c)) =>
                        (mpc'[c] = "rejected" /\ mres'[c] = RemountError
                           /\ created' = created /\ invoked' = invoked)
             /\ \A v \in UnmountCalls :
                    (impl = "class" /\ urep[u] \in Errs /\ UnmountIssued(v)) =>
                        /\ upc'[v] = "funmount"
                        /\ utarget'[v] = fuse
                        /\ unmounted' = Append(unmounted, fuse)
                        /\ Cardinality(created) = 1 => utarget'[v] = utarget[u]]_vars

\* An unmount failed, a later mount was refused, a later unmount retried.
C7_Witness ==
    /\ impl = "class"
    /\ urep[1] = "Ea" /\ ures[1] = "Ea"
    /\ fuse = 1 /\ live = {1}
    /\ mpc[2] = "rejected" /\ mres[2] = RemountError
    /\ upc[2] = "funmount" /\ utarget[2] = 1
    /\ unmounted = <<1, 1>>

\* C8: a mount() issued while another mount() of the session is Mounting is
\* rejected, constructs no transport object and leads to no second invocation
\* of the transport's mount.
C8_MountWhileMountingRejected ==
    [][\A c \in MountCalls :
          (impl = "class" /\ MountIssued(c) /\ \E d \in MountCalls : Mounting(d)) =>
              (mpc'[c] = "rejected" /\ created' = created)]_vars

\* C9: the session has at most one live kernel-transport registration.
C9_AtMostOneRegistration ==
    impl = "class" => Cardinality(live) <= 1

\* C10: once a mount() and a following unmount() have both succeeded, the
\* session is Unmounted again: it holds no transport handle (so that the
\* next mount() passes the remount guard).
C10_LifecycleIsCycle ==
    (/\ impl = "class"
     /\ \E c \in MountCalls, u \in UnmountCalls :
           mpc[c] = "resolved" /\ upc[u] = "resolved" /\ utarget[u] = c
     /\ live = {})
        => fuse = 0

\* ========================================================= handler claims

\* The request of slot s is over: the handler and every callback it handed
\* to the backend have run.
Over(s) == hpc[s] \in {"done", "threw"}

\* C2: the bytes the backend consumes for a write are the bytes the caller's
\* buffer held when the write handler was invoked, whatever the caller wrote
\* to the buffer afterwards and whatever other writes did.
C2_PayloadIsSnapshot ==
    \A s \in Slots :
        (req[s].op = "write" /\ consumed[s] # <<>>) =>
            consumed[s] = SubSeq(given[s], 1, req[s].len)

\* Two writes shared a buffer that was overwritten between and after them;
\* both were consumed after the buffer had changed.
C2_Witness ==
    /\ hpc[1] = "done" /\ hpc[2] = "done"
    /\ req[1].buf = req[2].buf
    /\ consumed[1] # <<>> /\ consumed[2] # <<>>
    /\ given[1] # given[2]
    /\ heap[req[1].buf] # given[1] /\ heap[req[1].buf] # given[2]
    /\ consumed[1] = SubSeq(given[1], 1, req[1].len)
    /\ consumed[2] = SubSeq(given[2], 1, req[2].len)

\* C3: every handler invokes its completion callback exactly once, whatever
\* the backend reports: never before the backend has answered the calls the
\* handler waits for, once when the request is over, and the invocation is
\* either an error status without a result or a success.
C3_CallbackExactlyOnce ==
    \A s \in Slots :
        /\ Len(cbs[s]) <= 1
        /\ hpc[s] = "wait" => cbs[s] = <<>>
        /\ Over(s) => Len(cbs[s]) = 1
        /\ (Over(s) /\ Len(cbs[s]) = 1 /\ replies[s] # <<>>
              /\ replies[s][Len(replies[s])].err.is) => cbs[s][1].res = NoRes

\* The default status the error mapping of C5 names for each operation.
C5_Default(op) ==
    IF op \in {"getattr", "readdir", "open", "unlink", "rmdir", "readlink", "create"}
    THEN ENOENT
    ELSE IF op \in {"read", "write", "release"} THEN EBADF
    ELSE EPERM

\* C5: a backend failure that carries a numeric error code is reported as
\* that code, negated; a failure without a code as the default of the
\* operation; a success as status 0 (read, write: the byte count).
C5_ErrorMapping ==
    \A s \in Slots :
        (hpc[s] = "done" /\ replies[s] # <<>>) =>
            LET r == replies[s][Len(replies[s])]
                c == cbs[s][1]
            IN /\ c.kind = "status"
               /\ (r.err.is /\ r.err.has /\ r.err.errno > 0) => c.status = 0 - r.err.errno
               /\ (r.err.is /\ ~r.err.has) => c.status = C5_Default(req[s].op)
               /\ ~r.err.is =>
                     c.status = IF req[s].op \in {"read", "write"} THEN r.n ELSE 0

\* C4 (round trip): every chunk read back holds the bytes of the content at
\* [k*R, min((k+1)*R, N*S)) and reports their number; at the end the chunks
\* cover the content; and the write handler hands the backend the file
\* offset and the length it received.
C4_Chunk(k) ==
    SubSeq(Content(script.N * script.S), (k - 1) * script.R + 1,
           IF k * script.R < script.N * script.S THEN k * script.R
           ELSE script.N * script.S)

C4_ReadsBack ==
    /\ \A k \in 1..Len(chunks) :
          chunks[k].bytes = C4_Chunk(k) /\ chunks[k].status = Len(C4_Chunk(k))
    /\ script.phase = "end" => Len(chunks) * script.R >= script.N * script.S

C4_WriteForwardsOffset ==
    \A s \in Slots :
        (req[s].op = "write" /\ bcalls[s] # <<>>) =>
            /\ bcalls[s][1].hasPos /\ bcalls[s][1].pos = req[s].offset
            /\ bcalls[s][1].len = req[s].len
            /\ bcalls[s][1].handle = req[s].handle

C4_RoundTrip == C4_ReadsBack /\ C4_WriteForwardsOffset

\* C11: readlink reports the stored link target unchanged when it is relative,
\* and joined under the mount path when it is absolute; the target is never
\* combined with the directory of the link.
C11_ReadlinkResult ==
    \A s \in Slots :
        (req[s].op = "readlink" /\ hpc[s] = "done" /\ ~replies[s][1].err.is) =>
            LET target == replies[s][1].stat.linkname IN
            /\ cbs[s][1].status = 0
            /\ cbs[s][1].res.path = IF target.abs THEN join(mnt, target) ELSE target

\* ================================================ the drive behind the handlers
\* The backend drive as the handlers use it: a metadata map per path
\* (setMetadata / removeMetadata / stat), attributes per path (_update), and
\* descriptors (open / create / close / read / write).

\* stat.metadata of path p: absent until the first setMetadata on p.
MetaOf(d, p) == IF p \in DOMAIN d.meta THEN d.meta[p] ELSE NoMeta

\* The map m with key k bound to v, and without key k.
MapSet(m, k, v) == [x \in DOMAIN m \cup {k} |-> IF x = k THEN v ELSE m[x]]
MapDel(m, k) == [x \in DOMAIN m \ {k} |-> m[x]]

\* drive.setMetadata(path, name, value) and drive.removeMetadata(path, name).
DriveSetMetadata(d, p, name, value) ==
    [d EXCEPT !.meta = MapSet(d.meta, p, Meta(MapSet(MetaOf(d, p).map, name, value)))]
DriveRemoveMetadata(d, p, name) ==
    IF MetaOf(d, p).has
    THEN [d EXCEPT !.meta = MapSet(d.meta, p, Meta(MapDel(MetaOf(d, p).map, name)))]
    ELSE d

\* The stat record drive.stat / drive.lstat passes for path p.
DriveStat(d, p) == Stat("0", "0", NoPath, MetaOf(d, p))

\* ---- extended attributes -----------------------------------------------
XattrOps == {"setxattr", "getxattr", "listxattr", "removexattr"}
XattrPaths == {AbsPath(<<"a">>), AbsPath(<<"b">>)}

XattrRequests(op) ==
    IF op = "setxattr"
    THEN {[NoReq EXCEPT !.op = op, !.path = p, !.name = n, !.value = v] :
             p \in XattrPaths, n \in SomeNames, v \in SomeValues}
    ELSE IF op = "listxattr"
    THEN {[NoReq EXCEPT !.op = op, !.path = p] : p \in XattrPaths}
    ELSE {[NoReq EXCEPT !.op = op, !.path = p, !.name = n] :
             p \in XattrPaths, n \in SomeNames}

\* The attributes the kernel's successful requests have set: request rq
\* completed with the callback invocations cs.
XattrAsked(h, rq, cs) ==
    IF cs = <<>> \/ cs[1].kind # "status" \/ cs[1].status # 0 THEN h
    ELSE LET m == IF rq.path \in DOMAIN h.xattr THEN h.xattr[rq.path] ELSE <<>> IN
         IF rq.op = "setxattr"
         THEN [h EXCEPT !.xattr = MapSet(h.xattr, rq.path, MapSet(m, rq.name, rq.value))]
         ELSE IF rq.op = "removexattr"
         THEN [h EXCEPT !.xattr = MapSet(h.xattr, rq.path, MapDel(m, rq.name))]
         ELSE h

\* The kernel sends an xattr request.
XInvoke(rq) ==
    /\ hpc[1] = "idle"
    /\ Invoke(1, rq, KernelHeap(heap))
    /\ hist' = XattrAsked(hist, rq, Handle(impl, platform, rq, KernelHeap(heap)).cbs)
    /\ UNCHANGED <<impl, platform, consumed, lifecycleVars, file, fpos, script, chunks, drive>>

\* The drive carries out the pending call and calls back.
XBackendDone ==
    /\ hpc[1] = "wait"
    /\ LET c == Pending(1)
           r == IF c.fn = "stat" THEN [NoReply EXCEPT !.stat = DriveStat(drive, c.path)]
                ELSE NoReply
       IN /\ drive' = IF c.fn = "setMetadata"
                      THEN DriveSetMetadata(drive, c.path, c.name, c.value)
                      ELSE IF c.fn = "removeMetadata"
                      THEN DriveRemoveMetadata(drive, c.path, c.name)
                      ELSE drive
          /\ Reply(1, r)
          /\ hist' = XattrAsked(hist, req[1], Callback(impl, req[1], r, stage[1] + 1).cbs)
    /\ UNCHANGED <<impl, platform, heap, consumed, lifecycleVars, file, fpos, script, chunks>>

\* The drive fails the pending call and changes nothing.
XBackendFails(e) ==
    /\ hpc[1] = "wait"
    /\ Reply(1, Failure(e))
    /\ UNCHANGED <<impl, platform, heap, consumed, lifecycleVars, storeVars>>

InitXattr ==
    /\ impl \in Impl
    /\ platform \in Platforms
    /\ LifecycleInit
    /\ HandlerIdle
    /\ StoreIdle
    /\ heap = <<[j \in 1..BufLen |-> 0]>>

NextXattr ==
    \/ \E op \in XattrOps \cap Ops(impl) : \E rq \in XattrRequests(op) : XInvoke(rq)
    \/ XBackendDone
    \/ \E e \in {ErrPlain, ErrWith(2)} : XBackendFails(e)
    \/ HRetire

SpecXattr == InitXattr /\ [][NextXattr]_vars

\* The attributes request rq's path should hold, by the requests completed.
C12_Expected(p) == IF p \in DOMAIN hist.xattr THEN hist.xattr[p] ELSE <<>>

\* C12: the xattr handlers of HyperdriveFuse behave like a map per path: a
\* getxattr the drive answers succeeds (status 0) with the value of the last
\* successful setxattr of that name not removed since, and with no value
\* when there is none; a listxattr succeeds with exactly the names set.
C12_XattrIsMap ==
    (impl = "class" /\ hpc[1] = "done" /\ req[1].op \in {"getxattr", "listxattr"}
       /\ ~replies[1][1].err.is) =>
        LET want == C12_Expected(req[1].path)
            got == cbs[1][1]
        IN /\ got.status = 0
           /\ req[1].op = "getxattr" =>
                 IF req[1].name \in DOMAIN want
                 THEN got.res.hasValue /\ got.res.value = want[req[1].name]
                 ELSE ~got.res.hasValue
           /\ req[1].op = "listxattr" => got.res.names = DOMAIN want

\* getxattr returns the second value set for a name while the path holds
\* another attribute and the other path holds none.
C12_Witness ==
    /\ impl = "class" /\ hpc[1] = "done" /\ req[1].op = "getxattr"
    /\ req[1].path = AbsPath(<<"a">>) /\ req[1].name = "test"
    /\ cbs[1][1].status = 0 /\ cbs[1][1].res.hasValue /\ cbs[1][1].res.value = "v2"
    /\ DOMAIN C12_Expected(AbsPath(<<"a">>)) = SomeNames
    /\ C12_Expected(AbsPath(<<"b">>)) = <<>>
    /\ AbsPath(<<"b">>) \in DOMAIN hist.xattr

\* The attribute names of the reserved vendor namespace: those that begin
\* with 'com.apple'.
C13_Reserved == {n \in SomeNames : n = "com.apple.quarantine"}

\* C13: on darwin a setxattr whose attribute name is in the reserved vendor
\* namespace completes with status 0 without calling setMetadata; every
\* other setxattr calls setMetadata(path, name, value) exactly once.
C13_ReservedNamespaceIgnored ==
    \A s \in Slots :
        (impl = "class" /\ req[s].op = "setxattr" /\ hpc[s] # "idle") =>
            IF platform = "darwin" /\ req[s].name \in C13_Reserved
            THEN bcalls[s] = <<>> /\ cbs[s] = <<Cb(0)>>
            ELSE bcalls[s] = <<[NoCall EXCEPT !.fn = "setMetadata", !.path = req[s].path,
                                   !.name = req[s].name, !.value = req[s].value]>>

\* C14: a successful getattr of any path, the mount root or another entry,
\* reports uid and gid of the invoking process whatever the backend stores,
\* and every other field of the backend's stat record unchanged; the handler
\* makes no backend call but the lstat of that path, so the ownership the
\* backend stores is left as it was.
C14_OwnershipNormalized ==
    \A s \in Slots :
        (req[s].op = "getattr" /\ hpc[s] = "done" /\ ~replies[s][1].err.is) =>
            LET stored == replies[s][1].stat
                got == cbs[s][1]
            IN /\ got.status = 0
               /\ got.res.stat.uid = getuid
               /\ got.res.stat.gid = getgid
               /\ got.res.stat = [stored EXCEPT !.uid = getuid, !.gid = getgid]
               /\ bcalls[s] = <<[NoCall EXCEPT !.fn = "lstat", !.path = req[s].path]>>

\* ---- file handles ----------------------------------------------------------
\* The drive issues a new descriptor on every successful open, forgets it on
\* close, and fails every close, read or write of a descriptor it does not
\* hold open.
FileOps == {"open", "create", "read", "write", "release"}
FileHandles == 1..MaxFds

FileRequests(op) ==
    IF op = "open"
    THEN {[NoReq EXCEPT !.op = op, !.path = AbsPath(<<"a">>),
                        !.flags = [layout |-> "linux", sem |-> {"O_RDWR"}]]}
    ELSE IF op = "create"
    THEN {[NoReq EXCEPT !.op = op, !.path = AbsPath(<<"a">>), !.mode = 420]}
    ELSE IF op = "release"
    THEN {[NoReq EXCEPT !.op = op, !.path = AbsPath(<<"a">>), !.handle = hd] :
             hd \in FileHandles}
    ELSE {[NoReq EXCEPT !.op = op, !.path = AbsPath(<<"a">>), !.handle = hd, !.buf = 1,
                        !.len = BufLen, !.offset = 0] : hd \in FileHandles}

\* drive.open: a new descriptor; drive.close: the descriptor is forgotten.
DriveOpen(d) == [d EXCEPT !.open = d.open \cup {d.issued + 1}, !.issued = d.issued + 1]
DriveClose(d, fd) == [d EXCEPT !.open = d.open \ {fd}]
\* The drive can carry out call c: it has a descriptor left to issue, or
\* holds the descriptor of c open.
DriveAccepts(d, c) ==
    /\ c.fn = "open" => d.issued < MaxFds
    /\ c.fn \in {"close", "read", "write"} => c.handle \in d.open

\* The buffers the handlers allocated are garbage once no write is pending.
FileHeap ==
    IF \E t \in Slots : hpc[t] = "wait" /\ req[t].op = "write" THEN heap
    ELSE KernelHeap(heap)

\* The kernel invokes a file handler in a free slot; a read or write that
\* names a handle whose release has completed successfully is late.
FInvoke(s, rq) ==
    /\ hpc[s] = "idle"
    /\ Len(FileHeap) <= MaxSlots
    /\ Invoke(s, rq, FileHeap)
    /\ hist' = [hist EXCEPT !.late =
                   IF rq.op \in {"read", "write"} /\ rq.handle \in hist.released
                   THEN hist.late \cup {s} ELSE hist.late \ {s}]
    /\ UNCHANGED <<impl, platform, consumed, lifecycleVars, file, fpos, script, chunks, drive>>

\* The drive carries out the pending call of slot s.
FBackendDone(s) ==
    /\ hpc[s] = "wait"
    /\ LET c == Pending(s)
           fd == drive.issued + 1
           r == IF c.fn = "open" THEN [NoReply EXCEPT !.fd = fd]
                ELSE IF c.fn \in {"read", "write"} THEN [NoReply EXCEPT !.n = c.len]
                ELSE NoReply
           out == Callback(impl, req[s], r, stage[s] + 1)
       IN /\ DriveAccepts(drive, c)
          /\ drive' = IF c.fn = "open" THEN DriveOpen(drive)
                      ELSE IF c.fn = "close" THEN DriveClose(drive, c.handle)
                      ELSE drive
          /\ Reply(s, r)
          /\ hist' = IF req[s].op = "release" /\ out.cbs # <<>> /\ out.cbs[1].status = 0
                     THEN [hist EXCEPT !.released = hist.released \cup {req[s].handle}]
                     ELSE hist
    /\ UNCHANGED <<impl, platform, heap, consumed, lifecycleVars, file, fpos, script, chunks>>

\* The drive fails the pending call of slot s with error e.
FBackendFails(s, e) ==
    /\ hpc[s] = "wait"
    /\ Reply(s, Failure(e))
    /\ UNCHANGED <<impl, platform, heap, consumed, lifecycleVars, storeVars>>

\* The request of slot s is over: the slot is free again.
FRetire(s) ==
    /\ hpc[s] \in {"done", "threw"}
    /\ req' = [req EXCEPT ![s] = NoReq]
    /\ hpc' = [hpc EXCEPT ![s] = "idle"]
    /\ stage' = [stage EXCEPT ![s] = 0]
    /\ bcalls' = [bcalls EXCEPT ![s] = <<>>]
    /\ replies' = [replies EXCEPT ![s] = <<>>]
    /\ cbs' = [cbs EXCEPT ![s] = <<>>]
    /\ given' = [given EXCEPT ![s] = <<>>]
    /\ hist' = [hist EXCEPT !.late = hist.late \ {s}]
    /\ UNCHANGED <<impl, platform, heap, consumed, lifecycleVars, file, fpos, script, chunks,
                   drive>>

\* The errors the drive reports for a descriptor it does not hold open.
FileErrs == {ErrPlain, ErrWith(9), ErrWith(-9)}

InitFiles ==
    /\ impl \in Impl
    /\ platform = "linux"
    /\ LifecycleInit
    /\ HandlerIdle
    /\ StoreIdle
    /\ heap = <<[j \in 1..BufLen |-> 0]>>

NextFiles ==
    \/ \E s \in Slots, op \in FileOps : \E rq \in FileRequests(op) : FInvoke(s, rq)
    \/ \E s \in Slots : FBackendDone(s)
    \/ \E s \in Slots, e \in FileErrs : FBackendFails(s, e)
    \/ \E s \in Slots : FRetire(s)

SpecFiles == InitFiles /\ [][NextFiles]_vars

\* C15: a read or write invoked with a handle whose release has completed
\* successfully reports an error status, bad file descriptor unless the
\* backend supplied a code, and never a byte count; release calls the
\* backend's close for its handle exactly once.
C15_NoIoAfterRelease ==
    \A s \in Slots :
        /\ (s \in hist.late /\ hpc[s] = "done") =>
              /\ cbs[s][1].status < 0
              /\ ~replies[s][1].err.has => cbs[s][1].status = EBADF
        /\ (req[s].op = "release" /\ hpc[s] # "idle") =>
              bcalls[s] = <<[NoCall EXCEPT !.fn = "close", !.handle = req[s].handle]>>

\* C16: create calls the backend's create with the given mode and the
\* identity of the invoking process, and the backend's open(path, 'w') only
\* after that create succeeded; when create fails open is never called and
\* the handler reports a single numeric error status and no handle; when
\* both succeed the handle reported is the one open issued.
C16_CreateThenOpen ==
    \A s \in Slots :
        (req[s].op = "create" /\ hpc[s] # "idle") =>
            /\ Len(bcalls[s]) \in {1, 2}
            /\ bcalls[s][1] = [NoCall EXCEPT !.fn = "create", !.path = req[s].path,
                                  !.attrs = AttrOpts(req[s].mode, getuid, getgid)]
            /\ Len(bcalls[s]) = 2 =>
                  /\ ~replies[s][1].err.is
                  /\ bcalls[s][2] = [NoCall EXCEPT !.fn = "open", !.path = req[s].path,
                                        !.flags = [layout |-> "string", sem |-> {"w"}]]
            /\ (replies[s] # <<>> /\ replies[s][1].err.is) =>
                  /\ Len(bcalls[s]) = 1
                  /\ Len(cbs[s]) = 1
                  /\ cbs[s][1].kind = "status"
                  /\ cbs[s][1].status # 0
                  /\ cbs[s][1].res = NoRes
            /\ (Len(replies[s]) = 2 /\ ~replies[s][2].err.is) =>
                  cbs[s] = <<CbRes(0, [NoRes EXCEPT !.t = "fd", !.fd = replies[s][2].fd])>>

\* ---- attributes -------------------------------------------------------------
\* The attributes the drive stores for a path, and drive._update(path, patch):
\* the attributes the patch names take its values, the others stay.
NewAttrs == [uid |-> "0", gid |-> "0", mode |-> 420, atime |-> NoTime, mtime |-> NoTime]
AttrsOf(d, p) == IF p \in DOMAIN d.attrs THEN d.attrs[p] ELSE NewAttrs
Patched(a, patch) ==
    [k \in DOMAIN a |-> IF k \in patch.keys THEN patch[k] ELSE a[k]]
DriveUpdate(d, p, patch) == [d EXCEPT !.attrs = MapSet(d.attrs, p, Patched(AttrsOf(d, p), patch))]

AttrOps == {"chown", "chmod", "utimens"}
AttrPaths == {AbsPath(<<"a">>), AbsPath(<<"b">>)}

AttrRequests(op) ==
    IF op = "chown"
    THEN {[NoReq EXCEPT !.op = op, !.path = p, !.uid = u, !.gid = g] :
             p \in AttrPaths, u \in SomeIds, g \in SomeIds}
    ELSE IF op = "chmod"
    THEN {[NoReq EXCEPT !.op = op, !.path = p, !.mode = m] : p \in AttrPaths, m \in SomeModes}
    ELSE {[NoReq EXCEPT !.op = op, !.path = p, !.atime = DateOf(a), !.mtime = DateOf(m)] :
             p \in AttrPaths, a \in {1, 2}, m \in {2}}

\* The attributes the kernel's successful requests have asked for: request
\* rq completed with the callback invocations cs.
AttrsAsked(h, rq, cs) ==
    IF cs = <<>> \/ cs[1].kind # "status" \/ cs[1].status # 0 THEN h
    ELSE LET a == IF rq.path \in DOMAIN h.attrs THEN h.attrs[rq.path] ELSE NewAttrs
             b == IF rq.op = "chown" THEN [a EXCEPT !.uid = rq.uid, !.gid = rq.gid]
                  ELSE IF rq.op = "chmod" THEN [a EXCEPT !.mode = rq.mode]
                  ELSE [a EXCEPT !.atime = rq.atime, !.mtime = rq.mtime]
         IN [h EXCEPT !.attrs = MapSet(h.attrs, rq.path, b)]

\* The kernel sends a chown, chmod or utimens request.
AInvoke(rq) ==
    /\ hpc[1] = "idle"
    /\ Invoke(1, rq, KernelHeap(heap))
    /\ UNCHANGED <<impl, platform, consumed, lifecycleVars, storeVars>>

\* The drive applies the patch of the pending _update and calls back.
ABackendDone ==
    /\ hpc[1] = "wait"
    /\ Pending(1).fn = "_update"
    /\ drive' = DriveUpdate(drive, Pending(1).path, Pending(1).attrs)
    /\ Reply(1, NoReply)
    /\ hist' = AttrsAsked(hist, req[1], Callback(impl, req[1], NoReply, stage[1] + 1).cbs)
    /\ UNCHANGED <<impl, platform, heap, consumed, lifecycleVars, file, fpos, script, chunks>>

InitAttrs ==
    /\ impl \in Impl
    /\ platform = "linux"
    /\ LifecycleInit
    /\ HandlerIdle
    /\ StoreIdle
    /\ heap = <<[j \in 1..BufLen |-> 0]>>

NextAttrs ==
    \/ \E op \in AttrOps : \E rq \in AttrRequests(op) : AInvoke(rq)
    \/ ABackendDone
    \/ \E e \in {ErrPlain, ErrWith(1)} : XBackendFails(e)
    \/ HRetire

SpecAttrs == InitAttrs /\ [][NextAttrs]_vars

\* The attributes each operation specifies.
C17_Keys(op) ==
    IF op = "chown" THEN {"uid", "gid"}
    ELSE IF op = "chmod" THEN {"mode"}
    ELSE {"atime", "mtime"}

\* The attributes of path p by the requests completed (times as instants).
C17_Asked(p) == IF p \in DOMAIN hist.attrs THEN hist.attrs[p] ELSE NewAttrs

\* C17: chown, chmod and utimens each issue exactly one _update whose patch
\* holds the attributes the operation specifies, with the values it was
\* given, and no other key; so every attribute of every path holds the value
\* of the last successful operation that specified it, and an attribute no
\* operation specified keeps its prior value.
C17_PatchOnlySpecified ==
    /\ (req[1].op \in AttrOps /\ hpc[1] # "idle") =>
          LET patch == bcalls[1][1].attrs IN
          /\ Len(bcalls[1]) = 1
          /\ bcalls[1][1].fn = "_update" /\ bcalls[1][1].path = req[1].path
          /\ patch.keys = C17_Keys(req[1].op)
          /\ req[1].op = "chown" => patch.uid = req[1].uid /\ patch.gid = req[1].gid
          /\ req[1].op = "chmod" => patch.mode = req[1].mode
          /\ req[1].op = "utimens" =>
                patch.atime.v = req[1].atime.v /\ patch.mtime.v = req[1].mtime.v
    /\ \A p \in AttrPaths :
          LET has == AttrsOf(drive, p)
              want == C17_Asked(p)
          IN /\ has.uid = want.uid /\ has.gid = want.gid /\ has.mode = want.mode
             /\ has.atime.v = want.atime.v /\ has.mtime.v = want.mtime.v

\* A chmod completed on a path after a chown and a utimens: the owner and the
\* times they set are still there, the other path is as it was.
C17_Witness ==
    /\ hpc[1] = "done" /\ req[1].op = "chmod" /\ req[1].path = AbsPath(<<"a">>)
    /\ cbs[1] = <<Cb(0)>>
    /\ AttrsOf(drive, AbsPath(<<"a">>)).mode = 493
    /\ AttrsOf(drive, AbsPath(<<"a">>)).uid = "501"
    /\ AttrsOf(drive, AbsPath(<<"a">>)).atime.v = 2
    /\ AttrsOf(drive, AbsPath(<<"b">>)) = NewAttrs

\* No operation handler, and no callback a handler hands to the backend,
\* calls drive.ready.
C18_HandlersNeverCallReady ==
    \A i \in Impl, plat \in Platforms : \A op \in Ops(i) : \A rq \in Requests(op, plat) :
        LET out == Handle(i, plat, rq, <<[j \in 1..BufLen |-> 0]>>) IN
        /\ out.call.fn # "ready"
        /\ out.pc = "wait" =>
              \A r \in Answers(out.call) :
                  LET next == Callback(i, rq, r, 1) IN
                  /\ next.call.fn # "ready"
                  /\ next.pc = "wait" =>
                        \A r2 \in Answers(next.call) :
                            Callback(i, rq, r2, 2).call.fn # "ready"

\* The order of the mount steps: the transport's mount is invoked for a call
\* in the very step in which drive.ready reports success to it, once, and
\* never after ready reported an error; the promise is resolved and the
\* handle stored only in the step in which the transport's mount reports
\* success; the handlers never call ready.
C18_Order ==
    /\ [](C18_HandlersNeverCallReady)
    /\ [](\A c \in MountCalls :
             Cardinality({k \in 1..Len(invoked) : invoked[k] = c}) <= 1)
    /\ [][/\ invoked' # invoked =>
                \E c \in MountCalls :
                    invoked' = Append(invoked, c) /\ mpc[c] = "ready" /\ mrep'[c] = "ok"
          /\ \A c \in MountCalls :
                /\ (mpc[c] = "ready" /\ mrep'[c] \in Errs) =>
                       (invoked' = invoked /\ mpc'[c] = "rejected")
                /\ mpc[c] = "rejected" => mpc'[c] = "rejected"
                /\ (mres'[c] = "resolved" /\ mres[c] # "resolved") =>
                       (mpc[c] = "fmount" /\ mrep'[c] = "ok")
          /\ fuse' # fuse =>
                \E c \in MountCalls : fuse' = c /\ mpc[c] = "fmount" /\ mrep'[c] = "ok"]_vars

\* C18 as stated: the order of the mount steps, and drive.ready invoked
\* exactly once by every mount() call.
C18_ReadyOncePerMount ==
    /\ C18_Order
    /\ [](\A c \in MountCalls : mpc[c] \in {"resolved", "rejected"} => nready[c] = 1)

\* C18, amended: the order of the mount steps, and drive.ready invoked at
\* most once by a mount() call: once when the call reaches the barrier (it
\* passed the remount guard and, in the function API, the mount point exists
\* or was created), not at all when the call is rejected before it.
C18_MountOrder ==
    /\ C18_Order
    /\ [](\A c \in MountCalls :
             /\ nready[c] <= 1
             /\ mpc[c] \in {"ready", "fmount", "resolved"} => nready[c] = 1
             /\ mpc[c] \in {"idle", "stat", "mkdirp"} => nready[c] = 0)
    /\ [][\A c \in MountCalls :
             /\ nready'[c] # nready[c] <=> (mpc[c] # "ready" /\ mpc'[c] = "ready")
             /\ (mpc[c] \in {"idle", "stat", "mkdirp"} /\ mpc'[c] = "rejected") =>
                    nready'[c] = 0]_vars

\* A first mount went through the barrier and the transport's mount and is
\* recorded; a second one was rejected by the remount guard before the
\* barrier.
C18_Witness ==
    /\ impl = "class"
    /\ mpc[1] = "resolved" /\ mres[1] = "resolved" /\ fuse = 1 /\ invoked = <<1>>
    /\ mpc[2] = "rejected" /\ mres[2] = RemountError
    /\ nready[1] = 1 /\ nready[2] = 0

\* C19: a handler that maps a backend failure with `-err.errno || <default>`
\* reports a strictly negative status for it, whatever error code the
\* backend attached (positive, zero, negative or none): a failed read or
\* write never reports a number the kernel takes for a byte count, a failed
\* path operation never reports 0 or a positive status.
C19_FailureStatusNegative ==
    \A s \in Slots :
        (/\ hpc[s] = "done" /\ replies[s] # <<>>
         /\ replies[s][Len(replies[s])].err.is
         /\ req[s].op \notin {"chown", "chmod", "utimens"}
         /\ cbs[s][1].kind = "status") =>
            cbs[s][1].status < 0

====
